---------------------------- MODULE Spec2Model ----------------------------
(***************************************************************************)
(* Voice I/O pipeline of feraco/roboai:                                    *)
(*   - LocalASRInput (src/src/inputs/plugins/local_asr.py): the message    *)
(*     aggregator (raw_to_text / formatted_latest_buffer), the speech      *)
(*     gate (_has_speech), the transcription dispatcher and the capture    *)
(*     loop;                                                               *)
(*   - LocalElevenLabsTTSConnector                                         *)
(*     (src/src/actions/speak/connector/local_elevenlabs_tts.py): the      *)
(*     synthesis provider chain and its playback driver;                   *)
(*   - PiperTTSConnector (src/src/actions/speak/connector/piper_tts.py);   *)
(*   - WebSocketClient (src/src/providers/websocket_utils.py).             *)
(*                                                                         *)
(* Each component has its own specification (SpecAgg, SpecGate, SpecLoop,  *)
(* SpecTTS, SpecPiper, SpecWS); the variables of the other components stay *)
(* at their constructed value.                                             *)
(*                                                                         *)
(* Text is a sequence of tokens (a character or a fixed piece of a         *)
(* template); Python's Optional[x] is a sequence of length 0 (None) or 1.  *)
(***************************************************************************)
EXTENDS Integers, Sequences, FiniteSets, TLC

VARIABLES
    \* ---- LocalASRInput: message aggregator
    messages,        \* self.messages: list[str]
    skip_sleep,      \* self.global_sleep_ticker_provider.skip_sleep
    io_inputs,       \* IOProvider.add_input calls, in order
    io_modes,        \* IOProvider.add_mode_transition_input calls, in order
    appended,        \* history: the texts given to raw_to_text, in order
    returned,        \* history: what each formatted_latest_buffer returned
    cuts,            \* history: Len(appended) at each formatted_latest_buffer
    last_call,           \* history: the last call made, "none", "text" (raw_to_text of a text),
                         \* "null" (raw_to_text of None), "read" (formatted_latest_buffer)
    \* ---- the disk: temporary files (tempfile.NamedTemporaryFile(delete=False))
    files,           \* the temporary files that exist: [name, by]
    \* ---- LocalElevenLabsTTSConnector
    elevenlabs_api_key,  \* os.getenv("ELEVENLABS_API_KEY"): Optional text
    use_elevenlabs,      \* self.use_elevenlabs
    tts_pc,              \* where the running speak call is ("idle": none runs)
    tts_proc,            \* the Piper subprocess: "none", "exit0", "exit1", "hang"
    audio_data,          \* speak's audio_data: Optional bytes
    text_file_path,      \* _synthesize_piper's text_file_path: Optional name
    audio_file_path,     \* _synthesize_piper's audio_file_path: Optional name
    temp_file_path,      \* _play_audio's temp_file_path: Optional name
    speak_ret,           \* what the last speak call returned: Optional BOOLEAN
    primary_attempts,    \* history: POSTs to the hosted endpoint, all calls
    primary_outcome,     \* history, this call: "none", "ok", "failed"
    piper_calls,         \* history, this call: entries of _synthesize_piper
    piper_result,        \* history, this call: what _synthesize_piper returned
    played,              \* history, this call: sd.play and sd.wait completed
    speaks,              \* history: speak calls started
    \* ---- LocalASRInput: gate, dispatcher, capture loop
    engine,              \* self.engine
    openai_api_key,      \* os.getenv("OPENAI_API_KEY"): Optional text
    openai_client,       \* self.openai_client is not None
    faster_whisper_model,\* self.faster_whisper_model is not None
    import_failed,       \* history: "from faster_whisper import ..." raised ImportError
    silence_threshold,   \* self.silence_threshold, in amplitude units
    loop_pc,             \* where _audio_processing_loop is
    audio_chunk,         \* audio_data of the cycle: Optional bytes
    gate_result,         \* what _has_speech returned: Optional BOOLEAN
    asr_text,            \* text of the cycle: Optional text
    asr_file,            \* _transcribe_with_openai's temp_file.name: Optional name
    message_buffer,      \* self.message_buffer: Queue[str]
    backend_used,        \* history, this cycle: "none", "cloud", "local", "invalid"
    cycle_failed,        \* history, this cycle: an exception was raised in it
    prev_failed,         \* history: an exception was raised in the cycle before
    puts,                \* history: message_buffer.put calls
    asr_segments,        \* history, this cycle: the segments the local engine emitted: Optional list
    cycle_put,           \* history, this cycle: the text put in the queue: Optional text
    enqueued,            \* history: the texts put in the queue, in order
    polled,              \* history: the texts _poll returned, in order
    poll_ret,            \* what the last _poll call returned: None before any call,
                         \* else Some of the Optional text returned
    \* ---- PiperTTSConnector
    piper_available,     \* self.piper_available
    pp_pc,               \* where the running connect call is ("idle": none runs)
    pp_path,             \* output_path / audio_path: Optional name
    pp_player,           \* _play_audio: index of the next player to try
    pp_tried,            \* history, this call: the players run, in order
    pp_success,          \* what _play_audio returned: Optional BOOLEAN
    pp_probes,           \* history: availability probes run
    pp_synth_runs,       \* history, this call: synthesis subprocesses run
    pp_connects,         \* history: connect calls started
    \* ---- WebSocketClient
    websocket,           \* self.websocket: 0 for None, else the number of the connection
    running,             \* self.running
    ws_open,             \* the connections that are open
    ws_has_callbacks,    \* the four callbacks are set (else all are None)
    ws_pc,               \* where the connect call is: "idle" (none runs), "connecting", "listening"
    ws_close_pc,         \* where the close call is: "idle" (none runs), "closing"
    ws_close_target,     \* the connection the running close call is closing
    ws_send_pc,          \* where the send call is: "idle" (none runs), "sending"
    ws_send_target,      \* the connection the running send call writes to
    ws_close_done,       \* history: a close call has completed and connect was not called since
    ws_sent_after_close, \* history: a message was transmitted while ws_close_done
    ws_connects,         \* history: connect calls started
    ws_closes,           \* history: close calls started
    ws_sends,            \* history: send calls started
    ws_sent,             \* history: messages transmitted
    ws_msgs,             \* history: messages received by _listen
    ws_callbacks         \* history: callback invocations, of all four callbacks

aggVars == <<messages, skip_sleep, io_inputs, io_modes, appended, returned, cuts, last_call>>

diskVars == <<files>>

ttsVars == <<elevenlabs_api_key, use_elevenlabs, tts_pc, tts_proc, audio_data,
             text_file_path, audio_file_path, temp_file_path, speak_ret,
             primary_attempts, primary_outcome, piper_calls, piper_result,
             played, speaks>>

asrVars == <<engine, openai_api_key, openai_client, faster_whisper_model, import_failed,
             silence_threshold, loop_pc, audio_chunk, gate_result, asr_text, asr_file,
             message_buffer, backend_used, cycle_failed, prev_failed, puts,
             asr_segments, cycle_put, enqueued, polled, poll_ret>>

piperVars == <<piper_available, pp_pc, pp_path, pp_player, pp_tried, pp_success,
               pp_probes, pp_synth_runs, pp_connects>>

wsVars == <<websocket, running, ws_open, ws_has_callbacks, ws_pc, ws_close_pc, ws_close_target,
            ws_send_pc, ws_send_target, ws_close_done, ws_sent_after_close, ws_connects,
            ws_closes, ws_sends, ws_sent, ws_msgs, ws_callbacks>>

vars == <<aggVars, diskVars, ttsVars, asrVars, piperVars, wsVars>>

-----------------------------------------------------------------------------
(* Bounds *)

MaxAppends == 3      \* raw_to_text calls that carry a text
MaxReads == 3        \* formatted_latest_buffer calls
MaxSpeaks == 2       \* speak calls on one connector
MaxLeaks == 2        \* capture-loop cycles that fail with a temporary file on disk
MaxConnects == 2     \* connect calls on one PiperTTSConnector
MaxPuts == 2         \* transcripts with text that the recognizers produce
MaxSample == 2       \* largest sample magnitude, in amplitude units
MaxChunkLen == 2     \* samples in a chunk
MaxWsConnects == 2   \* connect calls on one WebSocketClient
MaxWsCloses == 2     \* close calls on one WebSocketClient
MaxWsSends == 2      \* send calls on one WebSocketClient
MaxWsMessages == 2   \* messages a WebSocketClient receives

-----------------------------------------------------------------------------
(* Python values *)

NoneV == << >>
Some(x) == << x >>
IsNone(o) == Len(o) = 0
TheVal(o) == o[1]

SP == " "
NL == "\n"

-----------------------------------------------------------------------------
(* The disk *)

\* tempfile.NamedTemporaryFile(delete=False): a fresh file that stays on disk
\* after it is closed
TmpFile(name, by) == [name |-> name, by |-> by]

\* The name of a new temporary file: one that no file on disk has
FreshName == CHOOSE n \in 1..(Cardinality(files) + 1) : \A f \in files : f.name # n

\* os.unlink(path)
Unlink(fs, name) == { f \in fs : f.name # name }

-----------------------------------------------------------------------------
(* LocalElevenLabsTTSConnector *)

\* What ELEVENLABS_API_KEY can be: unset, set to the empty string, set to a key
ApiKeys == { NoneV, Some(<< >>), Some(<<"k">>) }

\* Python's bool() of an Optional text: None and "" are false
Truthy(o) == ~IsNone(o) /\ Len(TheVal(o)) > 0

\* Mutant of UseElevenLabs: "is not None" instead of bool()
MutUseElevenLabsNotNone(key) == ~IsNone(key)

\* self.use_elevenlabs = bool(self.elevenlabs_api_key)
UseElevenLabs(key) == Truthy(key)

\* The texts a caller asks to speak
SpeakTexts == { <<"h", "i">>, <<"o", "k">> }

\* What a provider can hand back as audio bytes: nothing, or encoded audio
AudioBodies == { << >>, <<"audio">> }

\* __init__ with the environment holding key
TTSConstructed(key) ==
    /\ elevenlabs_api_key = key
    /\ use_elevenlabs = UseElevenLabs(key)
    /\ tts_pc = "idle"
    /\ tts_proc = "none"
    /\ audio_data = NoneV
    /\ text_file_path = NoneV
    /\ audio_file_path = NoneV
    /\ temp_file_path = NoneV
    /\ speak_ret = NoneV
    /\ primary_attempts = 0
    /\ primary_outcome = "none"
    /\ piper_calls = 0
    /\ piper_result = NoneV
    /\ played = FALSE
    /\ speaks = 0

TTSConfig == <<elevenlabs_api_key, use_elevenlabs>>
TTSHistory == <<primary_attempts, primary_outcome, piper_calls, piper_result, played, speaks>>
PiperLocals == <<tts_proc, text_file_path, audio_file_path>>

\* speak(text) is called: line 218
Speak(text) ==
    /\ tts_pc = "idle"
    /\ speaks < MaxSpeaks
    /\ speaks' = speaks + 1
    /\ tts_pc' = "synthesize"
    /\ audio_data' = NoneV
    /\ speak_ret' = NoneV
    /\ primary_outcome' = "none"
    /\ piper_calls' = 0
    /\ piper_result' = NoneV
    /\ played' = FALSE
    /\ UNCHANGED <<TTSConfig, PiperLocals, temp_file_path, primary_attempts, diskVars>>

\* synthesize: lines 96-99
SynthesizeTarget(use) == IF use THEN "eleven_post" ELSE "piper_text_file"

Synthesize ==
    /\ tts_pc = "synthesize"
    /\ tts_pc' = SynthesizeTarget(use_elevenlabs)
    /\ piper_calls' = IF tts_pc' = "piper_text_file" THEN piper_calls + 1 ELSE piper_calls
    /\ UNCHANGED <<TTSConfig, PiperLocals, audio_data, temp_file_path, speak_ret,
                   primary_attempts, primary_outcome, piper_result, played, speaks,
                   diskVars>>

\* Mutant of FallbackTarget: a failed primary gives up with no audio
MutFallbackGivesUp == "speak_check"

\* "return await self._synthesize_piper(text)": lines 146 and 152
FallbackTarget == "piper_text_file"

\* The primary failed: _synthesize_elevenlabs falls back to Piper
FallBackToPiper ==
    /\ primary_outcome' = "failed"
    /\ tts_pc' = FallbackTarget
    /\ piper_calls' = IF tts_pc' = "piper_text_file" THEN piper_calls + 1 ELSE piper_calls
    /\ UNCHANGED <<TTSConfig, PiperLocals, audio_data, temp_file_path, speak_ret,
                   piper_result, played, speaks, diskVars>>

\* session.post(...): line 135. It answers 200, answers another status, or
\* raises (connection error, aiohttp's default total timeout)
ElevenPost ==
    /\ tts_pc = "eleven_post"
    /\ primary_attempts' = primary_attempts + 1
    /\ \/ /\ tts_pc' = "eleven_read"
          /\ UNCHANGED <<TTSConfig, PiperLocals, audio_data, temp_file_path, speak_ret,
                         primary_outcome, piper_calls, piper_result, played, speaks,
                         diskVars>>
       \/ /\ tts_pc' = "eleven_error"
          /\ UNCHANGED <<TTSConfig, PiperLocals, audio_data, temp_file_path, speak_ret,
                         primary_outcome, piper_calls, piper_result, played, speaks,
                         diskVars>>
       \/ FallBackToPiper

\* status 200: "audio_data = await response.read(); return audio_data", or the
\* read raises: lines 136-139, 148-152
ElevenRead ==
    /\ tts_pc = "eleven_read"
    /\ UNCHANGED primary_attempts
    /\ \/ \E body \in AudioBodies :
            /\ audio_data' = Some(body)
            /\ primary_outcome' = "ok"
            /\ tts_pc' = "speak_check"
            /\ UNCHANGED <<TTSConfig, PiperLocals, temp_file_path, speak_ret,
                           piper_calls, piper_result, played, speaks, diskVars>>
       \/ FallBackToPiper

\* another status: response.text() is logged, or raises; both fall back:
\* lines 140-146, 148-152
ElevenError ==
    /\ tts_pc = "eleven_error"
    /\ UNCHANGED primary_attempts
    /\ FallBackToPiper

\* _synthesize_piper returns result to synthesize, which returns it to speak
PiperReturns(result) ==
    /\ piper_result' = result
    /\ audio_data' = result
    /\ tts_pc' = "speak_check"

\* The text file: lines 170-172. Creating it fails (no file), writing the text
\* fails (the file stays), or both work
PiperTextFile ==
    /\ tts_pc = "piper_text_file"
    /\ UNCHANGED <<TTSConfig, tts_proc, audio_file_path, temp_file_path, speak_ret,
                   primary_attempts, primary_outcome, piper_calls, played, speaks>>
    /\ \/ /\ files' = files \cup {TmpFile(FreshName, "piper_txt")}
          /\ text_file_path' = Some(FreshName)
          /\ tts_pc' = "piper_audio_file"
          /\ UNCHANGED <<audio_data, piper_result>>
       \/ /\ files' = files \cup {TmpFile(FreshName, "piper_txt")}
          /\ PiperReturns(NoneV)
          /\ UNCHANGED text_file_path
       \/ /\ PiperReturns(NoneV)
          /\ UNCHANGED <<files, text_file_path>>

\* The output file: lines 174-175
PiperAudioFile ==
    /\ tts_pc = "piper_audio_file"
    /\ UNCHANGED <<TTSConfig, tts_proc, text_file_path, temp_file_path, speak_ret,
                   primary_attempts, primary_outcome, piper_calls, played, speaks>>
    /\ \/ /\ files' = files \cup {TmpFile(FreshName, "piper_wav")}
          /\ audio_file_path' = Some(FreshName)
          /\ tts_pc' = "piper_spawn"
          /\ UNCHANGED <<audio_data, piper_result>>
       \/ /\ PiperReturns(NoneV)
          /\ UNCHANGED <<files, audio_file_path>>

\* What becomes of a started subprocess: it exits 0, exits non-zero, or never exits
ProcFates == {"exit0", "exit1", "hang"}

\* asyncio.create_subprocess_exec(...): lines 185-190. The executable starts,
\* or the call raises (FileNotFoundError: Piper is not installed)
PiperSpawn ==
    /\ tts_pc = "piper_spawn"
    /\ UNCHANGED <<TTSConfig, text_file_path, audio_file_path, temp_file_path, speak_ret,
                   primary_attempts, primary_outcome, piper_calls, played, speaks,
                   diskVars>>
    /\ \/ \E fate \in ProcFates :
            /\ tts_proc' = fate
            /\ tts_pc' = "piper_communicate"
            /\ UNCHANGED <<audio_data, piper_result>>
       \/ /\ PiperReturns(NoneV)
          /\ UNCHANGED tts_proc

\* "await process.communicate(input=text.encode())": line 192, no timeout: it
\* returns when the subprocess has exited
PiperCommunicate ==
    /\ tts_pc = "piper_communicate"
    /\ tts_proc \in {"exit0", "exit1"}
    /\ UNCHANGED <<TTSConfig, temp_file_path, speak_ret, primary_attempts,
                   primary_outcome, piper_calls, played, speaks>>
    /\ tts_proc' = "none"
    /\ files' = Unlink(Unlink(files, TheVal(text_file_path)), TheVal(audio_file_path))
    /\ text_file_path' = NoneV
    /\ audio_file_path' = NoneV
    /\ IF tts_proc = "exit0"
       THEN \E bytes \in AudioBodies : PiperReturns(Some(bytes))   \* lines 194-204
       ELSE PiperReturns(NoneV)                                    \* lines 205-212

\* "if not audio_data": line 235
SpeakHasAudio(data) == Truthy(data)

\* speak after synthesize: lines 235-239
SpeakCheck ==
    /\ tts_pc = "speak_check"
    /\ UNCHANGED <<TTSConfig, PiperLocals, audio_data, temp_file_path, TTSHistory, diskVars>>
    /\ IF SpeakHasAudio(audio_data)
       THEN /\ tts_pc' = "play_write"
            /\ UNCHANGED speak_ret
       ELSE /\ tts_pc' = "idle"
            /\ speak_ret' = Some(FALSE)

\* _play_audio caught an exception and logged it (lines 269-270); speak goes on
\* to "return True" (line 240)
PlayReturns ==
    /\ tts_pc' = "idle"
    /\ speak_ret' = Some(TRUE)

\* _play_audio, the temporary file: lines 257-259
PlayWrite ==
    /\ tts_pc = "play_write"
    /\ UNCHANGED <<TTSConfig, PiperLocals, audio_data, TTSHistory>>
    /\ \/ /\ files' = files \cup {TmpFile(FreshName, "play_wav")}
          /\ temp_file_path' = Some(FreshName)
          /\ tts_pc' = "play_decode"
          /\ UNCHANGED speak_ret
       \/ /\ PlayReturns
          /\ UNCHANGED <<files, temp_file_path>>

\* sf.read(temp_file_path): line 262; it decodes, or raises
PlayDecode ==
    /\ tts_pc = "play_decode"
    /\ UNCHANGED <<TTSConfig, PiperLocals, audio_data, TTSHistory, diskVars>>
    /\ \/ /\ tts_pc' = "play_render"
          /\ UNCHANGED <<speak_ret, temp_file_path>>
       \/ /\ PlayReturns
          /\ temp_file_path' = NoneV

\* sd.play(data, samplerate); sd.wait(); os.unlink(temp_file_path): lines
\* 263-267; the device plays to the end, or raises
PlayRender ==
    /\ tts_pc = "play_render"
    /\ UNCHANGED <<TTSConfig, PiperLocals, audio_data, primary_attempts, primary_outcome,
                   piper_calls, piper_result, speaks>>
    /\ PlayReturns
    /\ temp_file_path' = NoneV
    /\ \/ /\ played' = TRUE
          /\ files' = Unlink(files, TheVal(temp_file_path))
       \/ UNCHANGED <<played, files>>

-----------------------------------------------------------------------------
(* PiperTTSConnector *)

\* How a subprocess.run call ends: exit code 0, another exit code, the timeout
\* expires, or the executable is not found
RunOutcomes == {"rc0", "rc1", "timeout", "notfound"}

\* _check_piper_availability: lines 37-50. first is how "piper --version" ends,
\* second how "python -m piper --version" ends; the second runs only when the
\* first raised
PiperProbe(first, second) ==
    IF first \in {"rc0", "rc1"} THEN first = "rc0" ELSE second = "rc0"

ProbesRun(first) == IF first \in {"rc0", "rc1"} THEN 1 ELSE 2

\* __init__: lines 18-35
PiperConstructed(first, second) ==
    /\ piper_available = PiperProbe(first, second)
    /\ pp_probes = ProbesRun(first)
    /\ pp_pc = "idle"
    /\ pp_path = NoneV
    /\ pp_player = 1
    /\ pp_tried = << >>
    /\ pp_success = NoneV
    /\ pp_synth_runs = 0
    /\ pp_connects = 0

\* players: line 131
players == <<"aplay", "paplay", "play", "ffplay">>

PiperConfig == <<piper_available, pp_probes>>

\* Mutant of ConnectTarget: connect synthesizes whatever the probe said
MutConnectTargetAlwaysSynth(available) == "synth_file"

\* connect: lines 162-167, "if not self.piper_available: ... return"
ConnectTarget(available) == IF available THEN "synth_file" ELSE "idle"

\* connect: lines 159-164
Connect ==
    /\ pp_pc = "idle"
    /\ pp_connects < MaxConnects
    /\ pp_connects' = pp_connects + 1
    /\ pp_pc' = ConnectTarget(piper_available)
    /\ pp_tried' = << >>
    /\ pp_success' = NoneV
    /\ pp_synth_runs' = 0
    /\ pp_player' = 1
    /\ UNCHANGED <<PiperConfig, pp_path, diskVars>>

\* _synthesize_with_piper, the output file: lines 68-69; creating it raises
\* (line 111: None, and connect logs the failure), or works
SynthFile ==
    /\ pp_pc = "synth_file"
    /\ \/ /\ files' = files \cup {TmpFile(FreshName, "piper_out")}
          /\ pp_path' = Some(FreshName)
          /\ pp_pc' = "synth_run"
       \/ /\ pp_pc' = "idle"
          /\ UNCHANGED <<files, pp_path>>
    /\ UNCHANGED <<PiperConfig, pp_player, pp_tried, pp_success, pp_synth_runs, pp_connects>>

\* subprocess.run(..., timeout=30) raised TimeoutExpired: lines 108-110
SynthTimeoutPath == "idle"

\* _synthesize_with_piper, the subprocess: lines 90-113, then connect: 169-182
SynthRun ==
    /\ pp_pc = "synth_run"
    /\ pp_synth_runs' = pp_synth_runs + 1
    /\ \E outcome \in RunOutcomes :
         CASE outcome = "rc0" ->          \* line 100: the path goes to _play_audio
                /\ pp_pc' = "play"
                /\ UNCHANGED <<files, pp_path>>
           [] outcome = "rc1" ->          \* lines 104-106: the file is removed
                /\ pp_pc' = "idle"
                /\ files' = Unlink(files, TheVal(pp_path))
                /\ pp_path' = NoneV
           [] outcome = "timeout" ->      \* lines 108-110
                /\ pp_pc' = SynthTimeoutPath
                /\ pp_path' = NoneV
                /\ UNCHANGED files
           [] OTHER ->                    \* lines 111-113
                /\ pp_pc' = "idle"
                /\ pp_path' = NoneV
                /\ UNCHANGED files
    /\ UNCHANGED <<PiperConfig, pp_player, pp_tried, pp_success, pp_connects>>

\* _play_audio, one player: lines 133-141
PlayerRun ==
    /\ pp_pc = "play"
    /\ pp_player <= Len(players)
    /\ pp_tried' = Append(pp_tried, players[pp_player])
    /\ \E outcome \in RunOutcomes :
         IF outcome = "rc0"
         THEN /\ pp_success' = Some(TRUE)
              /\ pp_pc' = "cleanup"
              /\ UNCHANGED pp_player
         ELSE /\ pp_player' = pp_player + 1
              /\ UNCHANGED <<pp_success, pp_pc>>
    /\ UNCHANGED <<PiperConfig, pp_path, pp_synth_runs, pp_connects, diskVars>>

\* _play_audio, the list is exhausted: lines 143-144
PlayersExhausted ==
    /\ pp_pc = "play"
    /\ pp_player > Len(players)
    /\ pp_success' = Some(FALSE)
    /\ pp_pc' = "cleanup"
    /\ UNCHANGED <<PiperConfig, pp_path, pp_player, pp_tried, pp_synth_runs, pp_connects,
                   diskVars>>

\* _play_audio, another exception in a player run: lines 146-148
PlayerRaises ==
    /\ pp_pc = "play"
    /\ pp_player <= Len(players)
    /\ pp_tried' = Append(pp_tried, players[pp_player])
    /\ pp_success' = Some(FALSE)
    /\ pp_pc' = "cleanup"
    /\ UNCHANGED <<PiperConfig, pp_path, pp_player, pp_synth_runs, pp_connects, diskVars>>

\* connect, after playback: lines 173-180
ConnectCleanup ==
    /\ pp_pc = "cleanup"
    /\ files' = Unlink(files, TheVal(pp_path))
    /\ pp_path' = NoneV
    /\ pp_pc' = "idle"
    /\ UNCHANGED <<PiperConfig, pp_player, pp_tried, pp_success, pp_synth_runs, pp_connects>>

-----------------------------------------------------------------------------
(* WebSocketClient *)

\* __init__: lines 16-31; has_callbacks: the set_*_callback methods (33-47)
\* were called for all four callbacks before the client is used
WSConstructed(has_callbacks) ==
    /\ websocket = 0
    /\ running = FALSE
    /\ ws_open = {}
    /\ ws_has_callbacks = has_callbacks
    /\ ws_pc = "idle"
    /\ ws_close_pc = "idle"
    /\ ws_close_target = 0
    /\ ws_send_pc = "idle"
    /\ ws_send_target = 0
    /\ ws_close_done = FALSE
    /\ ws_sent_after_close = FALSE
    /\ ws_connects = 0
    /\ ws_closes = 0
    /\ ws_sends = 0
    /\ ws_sent = 0
    /\ ws_msgs = 0
    /\ ws_callbacks = 0

\* "if self.x_callback: self.x_callback(...)", n times
Invoked(n) == IF ws_has_callbacks THEN ws_callbacks + n ELSE ws_callbacks

\* connect is called: line 49, up to the await of websockets.connect at line 52
WSConnectCall ==
    /\ ws_pc = "idle"
    /\ ws_connects < MaxWsConnects
    /\ ws_connects' = ws_connects + 1
    /\ ws_pc' = "connecting"
    /\ ws_close_done' = FALSE
    /\ ws_sent_after_close' = FALSE
    /\ UNCHANGED <<websocket, running, ws_open, ws_has_callbacks, ws_close_pc, ws_close_target,
                   ws_send_pc, ws_send_target, ws_closes, ws_sends, ws_sent, ws_msgs,
                   ws_callbacks>>

\* websockets.connect returned a connection: lines 52-59. connect_callback
\* returns and _listen starts, or it raises and the handler of lines 61-64 runs
WSConnectEstablished ==
    /\ ws_pc = "connecting"
    /\ websocket' = ws_connects
    /\ ws_open' = ws_open \cup {ws_connects}
    /\ running' = TRUE
    /\ \/ /\ ws_pc' = "listening"
          /\ ws_callbacks' = Invoked(1)
       \/ /\ ws_has_callbacks
          /\ ws_pc' = "idle"
          /\ ws_callbacks' = Invoked(2)
    /\ UNCHANGED <<ws_has_callbacks, ws_close_pc, ws_close_target, ws_send_pc, ws_send_target,
                   ws_close_done, ws_sent_after_close, ws_connects, ws_closes, ws_sends,
                   ws_sent, ws_msgs>>

\* websockets.connect raised: lines 61-64
WSConnectFails ==
    /\ ws_pc = "connecting"
    /\ ws_pc' = "idle"
    /\ ws_callbacks' = Invoked(1)
    /\ UNCHANGED <<websocket, running, ws_open, ws_has_callbacks, ws_close_pc, ws_close_target,
                   ws_send_pc, ws_send_target, ws_close_done, ws_sent_after_close,
                   ws_connects, ws_closes, ws_sends, ws_sent, ws_msgs>>

\* Mutant of ListenFinally: the flag is left as it is
MutListenFinallyKeeps(flag) == flag

\* "finally: self.running = False": lines 86-87
ListenFinally(flag) == FALSE

\* _listen, one message: lines 69-77. message_callback returns, or it raises:
\* the handler of lines 82-85 calls error_callback, then the finally clause
WSListenMessage ==
    /\ ws_pc = "listening"
    /\ websocket \in ws_open
    /\ ws_msgs < MaxWsMessages
    /\ ws_msgs' = ws_msgs + 1
    /\ \/ /\ ws_callbacks' = Invoked(1)
          /\ UNCHANGED <<ws_pc, running>>
       \/ /\ ws_has_callbacks
          /\ ws_callbacks' = Invoked(2)
          /\ running' = ListenFinally(running)
          /\ ws_pc' = "idle"
    /\ UNCHANGED <<websocket, ws_open, ws_has_callbacks, ws_close_pc, ws_close_target,
                   ws_send_pc, ws_send_target, ws_close_done, ws_sent_after_close,
                   ws_connects, ws_closes, ws_sends, ws_sent>>

\* How the iteration over the connection ends: ConnectionClosed is raised
\* (lines 78-81), the iteration ends after a normal closure, or another
\* exception is raised (lines 82-85)
ListenEnds == {"closed", "ended", "error"}

\* _listen, the end of the iteration: lines 78-87. The connection is closed
\* by then (by the peer, by a transport error, or by close)
WSListenEnds ==
    /\ ws_pc = "listening"
    /\ \E how \in ListenEnds :
         ws_callbacks' = IF how = "ended" THEN ws_callbacks ELSE Invoked(1)
    /\ ws_open' = ws_open \ {websocket}
    /\ running' = ListenFinally(running)
    /\ ws_pc' = "idle"
    /\ UNCHANGED <<websocket, ws_has_callbacks, ws_close_pc, ws_close_target, ws_send_pc,
                   ws_send_target, ws_close_done, ws_sent_after_close, ws_connects,
                   ws_closes, ws_sends, ws_sent, ws_msgs>>

\* "if not self.websocket or not self.running: ... return": lines 98-100
SendAllowed(sock, flag) == sock # 0 /\ flag

\* send is called: lines 89-104, up to the await of websocket.send
WSSendCall ==
    /\ ws_send_pc = "idle"
    /\ ws_sends < MaxWsSends
    /\ ws_sends' = ws_sends + 1
    /\ IF SendAllowed(websocket, running)
       THEN /\ ws_send_pc' = "sending"
            /\ ws_send_target' = websocket
       ELSE UNCHANGED <<ws_send_pc, ws_send_target>>
    /\ UNCHANGED <<websocket, running, ws_open, ws_has_callbacks, ws_pc, ws_close_pc,
                   ws_close_target, ws_close_done, ws_sent_after_close, ws_connects,
                   ws_closes, ws_sent, ws_msgs, ws_callbacks>>

\* websocket.send returns, the message is transmitted, or it raises (the
\* connection is closed, or the transport fails) and the handler of lines
\* 107-110 runs
WSSendFinish ==
    /\ ws_send_pc = "sending"
    /\ ws_send_pc' = "idle"
    /\ \/ /\ ws_send_target \in ws_open
          /\ ws_sent' = ws_sent + 1
          /\ ws_sent_after_close' = (ws_sent_after_close \/ ws_close_done)
          /\ UNCHANGED ws_callbacks
       \/ /\ ws_callbacks' = Invoked(1)
          /\ UNCHANGED <<ws_sent, ws_sent_after_close>>
    /\ UNCHANGED <<websocket, running, ws_open, ws_has_callbacks, ws_pc, ws_close_pc,
                   ws_close_target, ws_send_target, ws_close_done, ws_connects, ws_closes,
                   ws_sends, ws_msgs>>

\* close is called: lines 112-116, up to the await of websocket.close; with no
\* connection object the call is complete
WSCloseCall ==
    /\ ws_close_pc = "idle"
    /\ ws_closes < MaxWsCloses
    /\ ws_closes' = ws_closes + 1
    /\ running' = FALSE
    /\ IF websocket # 0
       THEN /\ ws_close_pc' = "closing"
            /\ ws_close_target' = websocket
            /\ UNCHANGED <<ws_close_done, ws_sent_after_close>>
       ELSE /\ ws_close_done' = TRUE
            /\ ws_sent_after_close' = FALSE
            /\ UNCHANGED <<ws_close_pc, ws_close_target>>
    /\ UNCHANGED <<websocket, ws_open, ws_has_callbacks, ws_pc, ws_send_pc, ws_send_target,
                   ws_connects, ws_sends, ws_sent, ws_msgs, ws_callbacks>>

\* websocket.close returned: lines 116-117
WSCloseFinish ==
    /\ ws_close_pc = "closing"
    /\ ws_close_pc' = "idle"
    /\ ws_open' = ws_open \ {ws_close_target}
    /\ ws_close_done' = TRUE
    /\ ws_sent_after_close' = FALSE
    /\ UNCHANGED <<websocket, running, ws_has_callbacks, ws_pc, ws_close_target, ws_send_pc,
                   ws_send_target, ws_connects, ws_closes, ws_sends, ws_sent, ws_msgs,
                   ws_callbacks>>

-----------------------------------------------------------------------------
(* LocalASRInput: speech activity gate *)

\* Audio bytes: float32 samples (integers, in amplitude units) and the number
\* of stray bytes after the last whole sample (0 for a recorded chunk)
Bytes(samples, stray) == [samples |-> samples, stray |-> stray]
BytesLen(b) == 4 * Len(b.samples) + b.stray

RECURSIVE SumSeq(_)
SumSeq(xs) == IF Len(xs) = 0 THEN 0 ELSE xs[1] + SumSeq(Tail(xs))

\* audio_array**2
Squares(xs) == [i \in 1..Len(xs) |-> xs[i] * xs[i]]

\* np.mean: the fraction sum / count; "nan" for an empty array (numpy warns,
\* it does not raise)
Mean(xs) == IF Len(xs) = 0 THEN [nan |-> TRUE, num |-> 0, den |-> 1]
            ELSE [nan |-> FALSE, num |-> SumSeq(xs), den |-> Len(xs)]

\* Mutant of SqrtGreater: ">=" instead of ">"
MutSqrtGreaterOrEqual(m, t) ==
    IF m.nan THEN FALSE
    ELSE IF t < 0 THEN TRUE
    ELSE m.num >= t * t * m.den

\* "np.sqrt(m) > t" for a fraction m >= 0: every comparison with nan is false;
\* a square root exceeds a negative t; otherwise compare the squares
SqrtGreater(m, t) ==
    IF m.nan THEN FALSE
    ELSE IF t < 0 THEN TRUE
    ELSE m.num > t * t * m.den

\* Mutant of HasSpeech: the stray bytes are dropped and the whole samples measured
MutHasSpeechDropsStray(b, threshold) == SqrtGreater(Mean(Squares(b.samples)), threshold)

\* _has_speech: lines 128-143. np.frombuffer raises ValueError when the buffer
\* is not a whole number of samples; the handler returns False
HasSpeech(b, threshold) ==
    IF b.stray # 0 THEN FALSE
    ELSE SqrtGreater(Mean(Squares(b.samples)), threshold)

Samples == (0 - MaxSample)..MaxSample
SampleSeqs == UNION { [1..n -> Samples] : n \in 0..MaxChunkLen }

\* The inputs of the gate: recorded chunks and malformed buffers
GateInputs == { Bytes(xs, stray) : xs \in SampleSeqs, stray \in {0, 1} }

\* The configured thresholds tried
Thresholds == {-1, 0, 1, 2}

-----------------------------------------------------------------------------
(* LocalASRInput: construction, dispatcher, capture loop *)

WS == {SP, NL}

RECURSIVE LStrip(_)
LStrip(t) == IF Len(t) > 0 /\ t[1] \in WS THEN LStrip(Tail(t)) ELSE t

RECURSIVE RStrip(_)
RStrip(t) == IF Len(t) > 0 /\ t[Len(t)] \in WS THEN RStrip(SubSeq(t, 1, Len(t) - 1)) ELSE t

\* str.strip()
Strip(t) == RStrip(LStrip(t))

RECURSIVE MutSpaceJoinNoSeparator(_)
\* Mutant of SpaceJoin: the texts are concatenated with nothing between them
MutSpaceJoinNoSeparator(ts) ==
    IF Len(ts) = 0 THEN << >> ELSE ts[1] \o MutSpaceJoinNoSeparator(Tail(ts))

\* " ".join(texts)
RECURSIVE SpaceJoin(_)
SpaceJoin(ts) ==
    IF Len(ts) = 0 THEN << >>
    ELSE IF Len(ts) = 1 THEN ts[1]
    ELSE ts[1] \o <<SP>> \o SpaceJoin(Tail(ts))

Engines == {"openai-whisper", "faster-whisper"}

\* The fallback of lines 70-72 assigns self.engine and nothing else
ClientAfterFallback(client, key) == client

\* __init__: lines 45-72. cfg_engine is config.engine, key the environment's
\* OPENAI_API_KEY, import_fails whether faster_whisper cannot be imported
ASRConstructed(cfg_engine, key, import_fails, threshold) ==
    LET client == (cfg_engine = "openai-whisper" /\ Truthy(key))
        fell_back == (cfg_engine = "faster-whisper" /\ import_fails)
    IN
    /\ openai_api_key = key
    /\ import_failed = fell_back
    /\ engine = IF fell_back THEN "openai-whisper" ELSE cfg_engine
    /\ openai_client = IF fell_back THEN ClientAfterFallback(client, key) ELSE client
    /\ faster_whisper_model = (cfg_engine = "faster-whisper" /\ ~import_fails)
    /\ silence_threshold = threshold
    /\ loop_pc = "record"
    /\ audio_chunk = NoneV
    /\ gate_result = NoneV
    /\ asr_text = NoneV
    /\ asr_file = NoneV
    /\ message_buffer = << >>
    /\ backend_used = "none"
    /\ cycle_failed = FALSE
    /\ prev_failed = FALSE
    /\ puts = 0
    /\ asr_segments = NoneV
    /\ cycle_put = NoneV
    /\ enqueued = << >>
    /\ polled = << >>
    /\ poll_ret = NoneV

ASRConfig == <<engine, openai_api_key, openai_client, faster_whisper_model, import_failed,
               silence_threshold>>
ASRFrame == <<ASRConfig, prev_failed>>
PollHistory == <<polled, poll_ret>>

\* The chunks the microphone delivers: whole samples, possibly none
LoopChunks == { Bytes(xs, 0) : xs \in [1..1 -> 0..MaxSample] \cup { << >> } }

\* What the hosted endpoint answers with
CloudResponses == { << >>, <<SP>>, <<SP, "h", "i", NL>>, <<"o", "k">> }

\* What the local engine emits: sequences of segment texts
SegmentLists == { << >>, << <<SP>> >>, << <<"hel">>, <<"lo">> >>, << <<SP, "a">>, <<SP, "b">> >> }

\* A transcript that reaches the queue
HasText(t) == Len(Strip(t)) > 0

\* _record_audio_chunk: lines 110-126; sd.rec/sd.wait give a chunk, or raise
\* (the handler returns None)
Record ==
    /\ loop_pc = "record"
    /\ loop_pc' = "evaluate"
    /\ \/ \E c \in LoopChunks : audio_chunk' = Some(c) /\ UNCHANGED cycle_failed
       \/ audio_chunk' = NoneV /\ cycle_failed' = TRUE
    /\ UNCHANGED <<ASRFrame, PollHistory, enqueued, gate_result, asr_text, asr_file, message_buffer,
                   backend_used, puts, asr_segments, cycle_put, diskVars>>

\* Mutant of AfterGate: the dispatcher runs whatever the gate answered
MutAfterGateAlwaysDispatch(speech) == "dispatch"

\* line 97: "if self._has_speech(audio_data):", else on to the sleep of line 104
AfterGate(speech) == IF speech THEN "dispatch" ELSE "sleep"

\* lines 95-97: the length check, then the gate. The gate computes its
\* answer, or an exception inside it (numpy cannot be imported, say) is caught
\* by its handler, which answers False
Evaluate ==
    /\ loop_pc = "evaluate"
    /\ IF ~IsNone(audio_chunk) /\ BytesLen(TheVal(audio_chunk)) > 0
       THEN \/ /\ gate_result' = Some(HasSpeech(TheVal(audio_chunk), silence_threshold))
               /\ loop_pc' = AfterGate(TheVal(gate_result'))
               /\ UNCHANGED cycle_failed
            \/ /\ gate_result' = Some(FALSE)
               /\ loop_pc' = AfterGate(FALSE)
               /\ cycle_failed' = TRUE
       ELSE /\ loop_pc' = "sleep"
            /\ UNCHANGED <<gate_result, cycle_failed>>
    /\ UNCHANGED <<ASRFrame, PollHistory, enqueued, audio_chunk, asr_text, asr_file, message_buffer,
                   backend_used, puts, asr_segments, cycle_put, diskVars>>

\* _transcribe_audio: lines 147-154
Backend(eng, client, model) ==
    IF eng = "openai-whisper" /\ client THEN "cloud"
    ELSE IF eng = "faster-whisper" /\ model THEN "local"
    ELSE "invalid"

Dispatch ==
    /\ loop_pc = "dispatch"
    /\ backend_used' = Backend(engine, openai_client, faster_whisper_model)
    /\ loop_pc' = CASE backend_used' = "cloud" -> "openai_file"
                    [] backend_used' = "local" -> "fw_transcribe"
                    [] OTHER -> "enqueue"
    /\ asr_text' = NoneV
    /\ UNCHANGED <<ASRFrame, PollHistory, enqueued, audio_chunk, gate_result, asr_file, message_buffer,
                   cycle_failed, puts, asr_segments, cycle_put, diskVars>>

\* _transcribe_with_openai, the temporary WAV file: lines 164-168. Creating it
\* fails, writing the samples fails (the file stays), or both work
OpenAIFile ==
    /\ loop_pc = "openai_file"
    /\ UNCHANGED <<ASRFrame, PollHistory, enqueued, audio_chunk, gate_result, message_buffer, backend_used,
                   puts, asr_text, asr_segments, cycle_put>>
    /\ \/ /\ files' = files \cup {TmpFile(FreshName, "asr_wav")}
          /\ asr_file' = Some(FreshName)
          /\ loop_pc' = "openai_upload"
          /\ UNCHANGED cycle_failed
       \/ /\ Cardinality(files) < MaxLeaks
          /\ files' = files \cup {TmpFile(FreshName, "asr_wav")}
          /\ loop_pc' = "enqueue"
          /\ cycle_failed' = TRUE
          /\ UNCHANGED asr_file
       \/ /\ loop_pc' = "enqueue"
          /\ cycle_failed' = TRUE
          /\ UNCHANGED <<files, asr_file>>

\* The answers still to come: the recognizers produce at most MaxPuts
\* transcripts with text
Answers(all) == IF puts < MaxPuts THEN all ELSE { a \in all : ~HasText(a) }

\* _transcribe_with_openai, the upload: lines 171-185. The endpoint answers
\* (the file is unlinked, the answer stripped), or the call raises
OpenAIUpload ==
    /\ loop_pc = "openai_upload"
    /\ loop_pc' = "enqueue"
    /\ asr_file' = NoneV
    /\ UNCHANGED <<ASRFrame, PollHistory, enqueued, audio_chunk, gate_result, message_buffer, backend_used,
                   puts, asr_segments, cycle_put>>
    /\ \/ \E transcript \in Answers(CloudResponses) :
            /\ files' = Unlink(files, TheVal(asr_file))
            /\ asr_text' = IF Len(transcript) > 0 THEN Some(Strip(transcript)) ELSE NoneV
            /\ UNCHANGED cycle_failed
       \/ /\ Cardinality(files) <= MaxLeaks
          /\ asr_text' = NoneV
          /\ cycle_failed' = TRUE
          /\ UNCHANGED files

\* _transcribe_with_faster_whisper: lines 189-204
FWTranscribe ==
    /\ loop_pc = "fw_transcribe"
    /\ loop_pc' = "enqueue"
    /\ UNCHANGED <<ASRFrame, PollHistory, enqueued, audio_chunk, gate_result, asr_file, message_buffer,
                   backend_used, puts, cycle_put, diskVars>>
    /\ \/ \E segments \in { g \in SegmentLists : SpaceJoin(g) \in Answers({SpaceJoin(g)}) } :
            LET text == SpaceJoin(segments) IN
            /\ asr_text' = IF Len(text) > 0 THEN Some(Strip(text)) ELSE NoneV
            /\ asr_segments' = Some(segments)
            /\ UNCHANGED cycle_failed
       \/ /\ asr_text' = NoneV
          /\ cycle_failed' = TRUE
          /\ UNCHANGED asr_segments

\* Queue.put: the item goes to the end of the queue
QueuePut(q, item) == Append(q, item)

\* Mutant of QueueGetNowait: the newest item is handed out
MutQueueGetNewest(q) == q[Len(q)]

\* Queue.get_nowait on a queue that is not empty: the oldest item
QueueGetNowait(q) == Head(q)

\* Mutant of ShouldEnqueue: every transcript that is not None is enqueued
MutShouldEnqueueNotNone(text) == ~IsNone(text)

\* line 100: "if text and len(text.strip()) > 0"
ShouldEnqueue(text) == Truthy(text) /\ Len(Strip(TheVal(text))) > 0

\* lines 100-102: "if text and len(text.strip()) > 0: put(text.strip())"
Enqueue ==
    /\ loop_pc = "enqueue"
    /\ loop_pc' = "sleep"
    /\ IF ShouldEnqueue(asr_text)
       THEN /\ message_buffer' = QueuePut(message_buffer, Strip(TheVal(asr_text)))
            /\ cycle_put' = Some(Strip(TheVal(asr_text)))
            /\ enqueued' = Append(enqueued, Strip(TheVal(asr_text)))
            /\ puts' = puts + 1
       ELSE UNCHANGED <<message_buffer, cycle_put, enqueued, puts>>
    /\ UNCHANGED <<ASRFrame, PollHistory, audio_chunk, gate_result, asr_text, asr_file, backend_used,
                   cycle_failed, asr_segments, diskVars>>

\* The values a cycle starts with
NewCycle ==
    /\ audio_chunk' = NoneV
    /\ gate_result' = NoneV
    /\ asr_text' = NoneV
    /\ backend_used' = "none"
    /\ prev_failed' = cycle_failed
    /\ cycle_failed' = FALSE
    /\ asr_segments' = NoneV
    /\ cycle_put' = NoneV

\* "await asyncio.sleep(0.1)": line 104, then the next cycle
Sleep ==
    /\ loop_pc = "sleep"
    /\ loop_pc' = "record"
    /\ NewCycle
    /\ UNCHANGED <<ASRConfig, PollHistory, enqueued, asr_file, message_buffer, puts, diskVars>>

\* Mutant of HandlerTarget: no handler, the exception ends the task
MutHandlerEndsLoop == "terminated"

\* "except Exception: ... await asyncio.sleep(1)": lines 106-108
HandlerTarget == "sleep_err"

\* An exception that no helper catches is raised in the loop body (a
\* MemoryError at lines 95-102, say)
LoopRaises ==
    /\ loop_pc \in {"evaluate", "enqueue"}
    /\ loop_pc' = HandlerTarget
    /\ cycle_failed' = TRUE
    /\ UNCHANGED <<ASRFrame, PollHistory, enqueued, audio_chunk, gate_result, asr_text, asr_file, message_buffer,
                   backend_used, puts, asr_segments, cycle_put, diskVars>>

\* line 108, then the next cycle
SleepAfterError ==
    /\ loop_pc = "sleep_err"
    /\ loop_pc' = "record"
    /\ NewCycle
    /\ UNCHANGED <<ASRConfig, PollHistory, enqueued, asr_file, message_buffer, puts, diskVars>>

\* _poll: lines 206-220. get_nowait hands out the oldest transcript, or raises
\* Empty and _poll returns None
Poll ==
    /\ IF Len(message_buffer) > 0
       THEN /\ poll_ret' = Some(Some(QueueGetNowait(message_buffer)))
            /\ polled' = Append(polled, QueueGetNowait(message_buffer))
            /\ message_buffer' = Tail(message_buffer)
       ELSE /\ poll_ret' = Some(NoneV)
            /\ UNCHANGED <<polled, message_buffer>>
    /\ UNCHANGED <<ASRFrame, enqueued, loop_pc, audio_chunk, gate_result, asr_text, asr_file,
                   backend_used, cycle_failed, puts, asr_segments, cycle_put, diskVars>>

\* One step of _audio_processing_loop
LoopStep ==
    \/ Record
    \/ Evaluate
    \/ Dispatch
    \/ OpenAIFile
    \/ OpenAIUpload
    \/ FWTranscribe
    \/ Enqueue
    \/ Sleep
    \/ LoopRaises
    \/ SleepAfterError

-----------------------------------------------------------------------------
(* LocalASRInput: message aggregator *)

descriptor_for_LLM == <<"Voice">>

\* The transcripts the consumer hands to raw_to_text: non-empty, stripped text
\* (one with a space inside).
Fragments == { <<"a">>, <<"b">>, <<"h", SP, "i">> }

\* Mutant of FStringJoin: the separating space is forgotten
MutFStringJoinNoSpace(last, pending_message) == last \o pending_message

\* f"{self.messages[-1]} {pending_message}"
FStringJoin(last, pending_message) == last \o <<SP>> \o pending_message

\* Mutant of AppendMessage: every text becomes an entry of its own
MutAppendAlways(msgs, pending_message) == Append(msgs, pending_message)

\* raw_to_text, the branch of a text: lines 253-257
AppendMessage(msgs, pending_message) ==
    IF Len(msgs) = 0
    THEN Append(msgs, pending_message)
    ELSE [msgs EXCEPT ![Len(msgs)] = FStringJoin(msgs[Len(msgs)], pending_message)]

\* Mutant of SkipSleepAfterNone: the hint is set whatever the buffer holds
MutSkipSleepAlways(msgs, ss) == TRUE

\* raw_to_text, the branch of None: lines 248-251
SkipSleepAfterNone(msgs, ss) == IF Len(msgs) # 0 THEN TRUE ELSE ss

\* _raw_to_text: the identity on its input
RawToTextInner(raw_input) == raw_input

\* raw_to_text(raw_input), raw_input an Optional text
raw_to_text(raw_input) ==
    LET pending_message == RawToTextInner(raw_input) IN
    /\ IsNone(pending_message) \/ Len(appended) < MaxAppends
    /\ skip_sleep' = IF IsNone(pending_message)
                     THEN SkipSleepAfterNone(messages, skip_sleep)
                     ELSE skip_sleep
    /\ messages' = IF IsNone(pending_message)
                   THEN messages
                   ELSE AppendMessage(messages, TheVal(pending_message))
    /\ appended' = IF IsNone(pending_message)
                   THEN appended
                   ELSE Append(appended, TheVal(pending_message))
    /\ last_call' = IF IsNone(pending_message) THEN "null" ELSE "text"
    /\ UNCHANGED <<io_inputs, io_modes, returned, cuts>>
    /\ UNCHANGED <<diskVars, ttsVars, asrVars, piperVars, wsVars>>

\* The f-string of formatted_latest_buffer: lines 271-276
BlockHeader(desc) == <<NL, "INPUT: ">> \o desc \o <<NL, "// START", NL>>
BlockFooter == <<NL, "// END", NL>>
FormatBlock(desc, text) == BlockHeader(desc) \o text \o BlockFooter

\* Mutant of ResetMessages: the read does not clear the buffer
MutResetKeeps(msgs) == msgs

\* self.messages = [] : line 284
ResetMessages(msgs) == << >>

\* time.time(): a logical clock, the number of calls made so far
Now == Len(appended) + Len(returned)

\* Mutant of AddModeTransitionInput: the notification is not sent
MutAddModeTransitionDropped(log, text) == log

\* self.io_provider.add_input(...): lines 278-280. The provider records the
\* entry it is given
AddInput(log, input_type, text, timestamp) ==
    Append(log, [input_type |-> input_type, text |-> text, timestamp |-> timestamp])

\* self.io_provider.add_mode_transition_input(...): line 281
AddModeTransitionInput(log, text) == Append(log, text)

\* formatted_latest_buffer()
formatted_latest_buffer ==
    /\ Len(returned) < MaxReads
    /\ cuts' = Append(cuts, Len(appended))
    /\ last_call' = "read"
    /\ IF Len(messages) = 0
       THEN /\ returned' = Append(returned, NoneV)
            /\ UNCHANGED <<messages, io_inputs, io_modes>>
       ELSE LET last == messages[Len(messages)] IN
            /\ io_inputs' = AddInput(io_inputs, descriptor_for_LLM, last, Now)
            /\ io_modes' = AddModeTransitionInput(io_modes, last)
            /\ messages' = ResetMessages(messages)
            /\ returned' = Append(returned, Some(FormatBlock(descriptor_for_LLM, last)))
    /\ UNCHANGED <<skip_sleep, appended>>
    /\ UNCHANGED <<diskVars, ttsVars, asrVars, piperVars, wsVars>>

AggConstructed ==
    /\ messages = << >>
    /\ skip_sleep = FALSE
    /\ io_inputs = << >>
    /\ io_modes = << >>
    /\ appended = << >>
    /\ returned = << >>
    /\ cuts = << >>
    /\ last_call = "none"

AggInit ==
    /\ AggConstructed
    /\ files = {}
    /\ TTSConstructed(NoneV)
    /\ ASRConstructed("openai-whisper", NoneV, FALSE, 1)
    /\ PiperConstructed("rc0", "rc0")
    /\ WSConstructed(FALSE)

AppendText == \E f \in Fragments : raw_to_text(Some(f))
AppendNone == raw_to_text(NoneV)

AggNext ==
    \/ AppendText
    \/ AppendNone
    \/ formatted_latest_buffer

SpecAgg == AggInit /\ [][AggNext]_vars

-----------------------------------------------------------------------------
(* Specification of the synthesis chain *)

TTSInit ==
    /\ files = {}
    /\ \E key \in ApiKeys : TTSConstructed(key)
    /\ AggConstructed
    /\ ASRConstructed("openai-whisper", NoneV, FALSE, 1)
    /\ PiperConstructed("rc0", "rc0")
    /\ WSConstructed(FALSE)

TTSNext ==
    \/ \E text \in SpeakTexts : Speak(text) /\ UNCHANGED <<aggVars, asrVars, piperVars, wsVars>>
    \/ Synthesize /\ UNCHANGED <<aggVars, asrVars, piperVars, wsVars>>
    \/ ElevenPost /\ UNCHANGED <<aggVars, asrVars, piperVars, wsVars>>
    \/ ElevenRead /\ UNCHANGED <<aggVars, asrVars, piperVars, wsVars>>
    \/ ElevenError /\ UNCHANGED <<aggVars, asrVars, piperVars, wsVars>>
    \/ PiperTextFile /\ UNCHANGED <<aggVars, asrVars, piperVars, wsVars>>
    \/ PiperAudioFile /\ UNCHANGED <<aggVars, asrVars, piperVars, wsVars>>
    \/ PiperSpawn /\ UNCHANGED <<aggVars, asrVars, piperVars, wsVars>>
    \/ PiperCommunicate /\ UNCHANGED <<aggVars, asrVars, piperVars, wsVars>>
    \/ SpeakCheck /\ UNCHANGED <<aggVars, asrVars, piperVars, wsVars>>
    \/ PlayWrite /\ UNCHANGED <<aggVars, asrVars, piperVars, wsVars>>
    \/ PlayDecode /\ UNCHANGED <<aggVars, asrVars, piperVars, wsVars>>
    \/ PlayRender /\ UNCHANGED <<aggVars, asrVars, piperVars, wsVars>>

SpecTTS == TTSInit /\ [][TTSNext]_vars

-----------------------------------------------------------------------------
(* Specifications of the gate and of the capture loop *)

\* The gate applied to every input: the connector is constructed with a
\* threshold, then _has_speech is called on a buffer
GateInit ==
    /\ files = {}
    /\ TTSConstructed(NoneV)
    /\ AggConstructed
    /\ PiperConstructed("rc0", "rc0")
    /\ WSConstructed(FALSE)
    /\ \E t \in Thresholds : ASRConstructed("openai-whisper", NoneV, FALSE, t)

\* A caller hands a buffer to _has_speech and branches on the answer as line 97
\* does
GateCall ==
    /\ \E b \in GateInputs :
         /\ audio_chunk' = Some(b)
         /\ gate_result' = Some(HasSpeech(b, silence_threshold))
         /\ loop_pc' = AfterGate(HasSpeech(b, silence_threshold))
    /\ UNCHANGED <<ASRFrame, PollHistory, enqueued, asr_text, asr_file, message_buffer, backend_used,
                   cycle_failed, puts, asr_segments, cycle_put, diskVars, ttsVars, aggVars, piperVars, wsVars>>

GateNext == GateCall

SpecGate == GateInit /\ [][GateNext]_vars

LoopInit ==
    /\ files = {}
    /\ TTSConstructed(NoneV)
    /\ AggConstructed
    /\ PiperConstructed("rc0", "rc0")
    /\ WSConstructed(FALSE)
    /\ \E cfg_engine \in Engines, key \in {NoneV, Some(<<"k">>)}, import_fails \in BOOLEAN :
         ASRConstructed(cfg_engine, key, import_fails, 1)

LoopNext ==
    \/ Record /\ UNCHANGED <<ttsVars, aggVars, piperVars, wsVars>>
    \/ Evaluate /\ UNCHANGED <<ttsVars, aggVars, piperVars, wsVars>>
    \/ Dispatch /\ UNCHANGED <<ttsVars, aggVars, piperVars, wsVars>>
    \/ OpenAIFile /\ UNCHANGED <<ttsVars, aggVars, piperVars, wsVars>>
    \/ OpenAIUpload /\ UNCHANGED <<ttsVars, aggVars, piperVars, wsVars>>
    \/ FWTranscribe /\ UNCHANGED <<ttsVars, aggVars, piperVars, wsVars>>
    \/ Enqueue /\ UNCHANGED <<ttsVars, aggVars, piperVars, wsVars>>
    \/ Sleep /\ UNCHANGED <<ttsVars, aggVars, piperVars, wsVars>>
    \/ LoopRaises /\ UNCHANGED <<ttsVars, aggVars, piperVars, wsVars>>
    \/ SleepAfterError /\ UNCHANGED <<ttsVars, aggVars, piperVars, wsVars>>
    \/ Poll /\ UNCHANGED <<ttsVars, aggVars, piperVars, wsVars>>

SpecLoop == LoopInit /\ [][LoopNext]_vars

\* The event loop runs a task that can run: every awaited call of the loop
\* returns or raises
FairLoop == SpecLoop /\ WF_vars(LoopStep /\ UNCHANGED <<ttsVars, aggVars, piperVars, wsVars>>)

-----------------------------------------------------------------------------
(* Specification of PiperTTSConnector *)

PiperInit ==
    /\ files = {}
    /\ TTSConstructed(NoneV)
    /\ AggConstructed
    /\ ASRConstructed("openai-whisper", NoneV, FALSE, 1)
    /\ \E first \in RunOutcomes, second \in RunOutcomes : PiperConstructed(first, second)
    /\ WSConstructed(FALSE)

PiperNext ==
    \/ Connect /\ UNCHANGED <<ttsVars, aggVars, asrVars, wsVars>>
    \/ SynthFile /\ UNCHANGED <<ttsVars, aggVars, asrVars, wsVars>>
    \/ SynthRun /\ UNCHANGED <<ttsVars, aggVars, asrVars, wsVars>>
    \/ PlayerRun /\ UNCHANGED <<ttsVars, aggVars, asrVars, wsVars>>
    \/ PlayersExhausted /\ UNCHANGED <<ttsVars, aggVars, asrVars, wsVars>>
    \/ PlayerRaises /\ UNCHANGED <<ttsVars, aggVars, asrVars, wsVars>>
    \/ ConnectCleanup /\ UNCHANGED <<ttsVars, aggVars, asrVars, wsVars>>

SpecPiper == PiperInit /\ [][PiperNext]_vars

-----------------------------------------------------------------------------
(* Specification of WebSocketClient: connect runs as one task, and close and
   send calls come from other tasks at any of its await points *)

WSInit ==
    /\ files = {}
    /\ TTSConstructed(NoneV)
    /\ AggConstructed
    /\ ASRConstructed("openai-whisper", NoneV, FALSE, 1)
    /\ PiperConstructed("rc0", "rc0")
    /\ \E has_callbacks \in BOOLEAN : WSConstructed(has_callbacks)

WSNext ==
    \/ WSConnectCall /\ UNCHANGED <<aggVars, diskVars, ttsVars, asrVars, piperVars>>
    \/ WSConnectEstablished /\ UNCHANGED <<aggVars, diskVars, ttsVars, asrVars, piperVars>>
    \/ WSConnectFails /\ UNCHANGED <<aggVars, diskVars, ttsVars, asrVars, piperVars>>
    \/ WSListenMessage /\ UNCHANGED <<aggVars, diskVars, ttsVars, asrVars, piperVars>>
    \/ WSListenEnds /\ UNCHANGED <<aggVars, diskVars, ttsVars, asrVars, piperVars>>
    \/ WSSendCall /\ UNCHANGED <<aggVars, diskVars, ttsVars, asrVars, piperVars>>
    \/ WSSendFinish /\ UNCHANGED <<aggVars, diskVars, ttsVars, asrVars, piperVars>>
    \/ WSCloseCall /\ UNCHANGED <<aggVars, diskVars, ttsVars, asrVars, piperVars>>
    \/ WSCloseFinish /\ UNCHANGED <<aggVars, diskVars, ttsVars, asrVars, piperVars>>

SpecWS == WSInit /\ [][WSNext]_vars

-----------------------------------------------------------------------------
(* Claims about the synthesis chain *)

\* The temporary files that subprocess-based synthesis and file-based
\* transcription create
SynthesisFileKinds == {"piper_txt", "piper_wav", "piper_out", "asr_wav"}
SynthesisFiles == { f \in files : f.by \in SynthesisFileKinds }

(* C3: when the configured primary provider fails (non-200 or an exception),
   the speak call enters the secondary provider exactly once, and speak
   returns true exactly when the secondary yielded audio. *)
C3_FallbackOnce ==
    /\ primary_outcome = "failed" => piper_calls = 1
    /\ (primary_outcome = "failed" /\ ~IsNone(speak_ret)) =>
           TheVal(speak_ret) = (~IsNone(piper_result) /\ Len(TheVal(piper_result)) > 0)

\* The primary was attempted and failed, the secondary yielded audio, and speak
\* returned true
C3_Witness ==
    /\ use_elevenlabs
    /\ primary_attempts > 0
    /\ primary_outcome = "failed"
    /\ piper_calls = 1
    /\ piper_result = Some(<<"audio">>)
    /\ speak_ret = Some(TRUE)

(* C4: with no credential at construction the hosted provider is never
   attempted, in any call; every synthesis enters the secondary provider. *)
C4_NoCredentialNoPrimary ==
    (IsNone(elevenlabs_api_key) \/ TheVal(elevenlabs_api_key) = << >>) =>
        /\ primary_attempts = 0
        /\ tts_pc \notin {"eleven_post", "eleven_read", "eleven_error"}
        /\ ~IsNone(speak_ret) => piper_calls = 1

\* Without a credential, a second speak call has returned
C4_Witness ==
    /\ elevenlabs_api_key = Some(<< >>)
    /\ speaks = 2
    /\ speak_ret = Some(TRUE)
    /\ piper_calls = 1

(* C5: when a synthesis or transcription has ended, no temporary file that it
   created is left on disk. *)
C5_NoTempFileLeft ==
    (tts_pc = "idle" /\ pp_pc = "idle" /\ loop_pc # "openai_upload") => SynthesisFiles = {}

(* C8: a speak call never hangs: while one is running, it can take a step. *)
C8_SpeakNeverHangs ==
    /\ tts_pc # "idle" => ENABLED TTSNext
    /\ pp_pc # "idle" => ENABLED PiperNext

(* C9: speak returns true only if the audio was actually played. *)
C9_TrueOnlyIfPlayed ==
    speak_ret = Some(TRUE) => played

-----------------------------------------------------------------------------
(* Claims about the gate and the capture loop *)

\* The sum of the squares of a chunk's samples
SumSq(xs) == SumSeq([i \in 1..Len(xs) |-> xs[i] * xs[i]])

\* The root-mean-square of a non-empty chunk exceeds t: for t >= 0 the mean of
\* the squares exceeds t squared
RmsAbove(xs, t) == t < 0 \/ SumSq(xs) > t * t * Len(xs)

\* The root-mean-square of a non-empty chunk is exactly t
RmsEquals(xs, t) == t >= 0 /\ SumSq(xs) = t * t * Len(xs)

(* C10: for every chunk of whole samples, has_speech is true if and only if
   the chunk's root-mean-square strictly exceeds the threshold; a chunk whose
   root-mean-square equals the threshold yields false. *)
C10_StrictlyAbove ==
    (~IsNone(gate_result) /\ TheVal(audio_chunk).stray = 0
         /\ Len(TheVal(audio_chunk).samples) > 0) =>
        LET xs == TheVal(audio_chunk).samples IN
        /\ TheVal(gate_result) <=> RmsAbove(xs, silence_threshold)
        /\ RmsEquals(xs, silence_threshold) => ~TheVal(gate_result)

\* The gate answered false for a chunk that is exactly at the threshold
C10_Witness ==
    /\ silence_threshold = 1
    /\ audio_chunk = Some(Bytes(<<1, -1>>, 0))
    /\ gate_result = Some(FALSE)

\* The root-mean-square of a non-empty chunk is less than t
RmsBelow(xs, t) == t >= 0 /\ SumSq(xs) < t * t * Len(xs)

\* A gate call has answered for a non-empty chunk of whole samples
GateAnswered ==
    /\ ~IsNone(gate_result)
    /\ TheVal(audio_chunk).stray = 0
    /\ Len(TheVal(audio_chunk).samples) > 0

(* C11 as stated: a root-mean-square below the threshold yields false, and one
   at or above the threshold, exactly at it included, yields true. *)
C11_AtThresholdIsSpeech ==
    GateAnswered =>
        LET xs == TheVal(audio_chunk).samples IN
        /\ RmsBelow(xs, silence_threshold) => gate_result = Some(FALSE)
        /\ (RmsEquals(xs, silence_threshold) \/ RmsAbove(xs, silence_threshold))
               => gate_result = Some(TRUE)

(* C11 amended: a root-mean-square below the threshold or exactly at it yields
   false, and only one strictly above the threshold yields true. *)
C11_AtThresholdIsSilence ==
    GateAnswered =>
        LET xs == TheVal(audio_chunk).samples IN
        /\ (RmsBelow(xs, silence_threshold) \/ RmsEquals(xs, silence_threshold))
               => gate_result = Some(FALSE)
        /\ RmsAbove(xs, silence_threshold) => gate_result = Some(TRUE)

\* The gate answered false at the threshold 2 for a chunk whose root-mean-square is 2
C11_Witness ==
    /\ silence_threshold = 2
    /\ audio_chunk = Some(Bytes(<<2, -2>>, 0))
    /\ gate_result = Some(FALSE)

(* C6: an exception in a cycle never ends the loop: after a failed cycle the
   loop comes to the start of a new cycle. *)
C6_FailedCycleIsFollowed ==
    /\ [](loop_pc # "terminated")
    /\ cycle_failed ~> (loop_pc = "record" /\ ~cycle_failed)

\* A new cycle starts after a cycle that went through the loop's handler
C6_Witness ==
    /\ loop_pc = "record"
    /\ prev_failed
    /\ ~cycle_failed

(* C7: once the local engine failed to initialize, every transcription of a
   speech chunk goes to the cloud backend when a cloud credential is present. *)
C7_DowngradeRoutesToCloud ==
    (import_failed /\ Truthy(openai_api_key) /\ backend_used # "none") =>
        backend_used = "cloud"

-----------------------------------------------------------------------------
(* Reference definitions for the aggregator's claims *)

RECURSIVE JoinSp(_)
\* The texts of a sequence joined by single spaces, in order
JoinSp(ts) ==
    IF Len(ts) = 0 THEN << >>
    ELSE IF Len(ts) = 1 THEN ts[1]
    ELSE ts[1] \o <<SP>> \o JoinSp(Tail(ts))

\* text occurs in s as a contiguous piece
Contains(s, text) ==
    \E i \in 0..(Len(s) - Len(text)) : SubSeq(s, i + 1, i + Len(text)) = text

\* The fragments appended between read k-1 and read k
Segment(k) == SubSeq(appended, (IF k = 1 THEN 0 ELSE cuts[k - 1]) + 1, cuts[k])

\* The fragments appended since the last read
PendingFragments ==
    SubSeq(appended, (IF Len(cuts) = 0 THEN 0 ELSE cuts[Len(cuts)]) + 1, Len(appended))

\* The text between the start and end markers of a delivered block
BlockText(block) ==
    SubSeq(block, Len(BlockHeader(descriptor_for_LLM)) + 1, Len(block) - Len(BlockFooter))

\* The texts of the blocks delivered so far, in order
DeliveredTexts ==
    LET some == SelectSeq(returned, LAMBDA r : ~IsNone(r))
    IN [k \in 1..Len(some) |-> BlockText(TheVal(some[k]))]

(* C1: from an empty buffer append("a") then append("b") leaves the single
   string "a b"; every read returns a block that contains the fragments
   appended since the last clear joined by single spaces in append order,
   and leaves the buffer empty; a read with nothing appended since the last
   one returns None. *)
C1_AppendThenRead ==
    /\ (appended = << <<"a">>, <<"b">> >> /\ returned = << >>)
           => messages = << <<"a", SP, "b">> >>
    /\ messages = IF PendingFragments = << >> THEN << >>
                  ELSE << JoinSp(PendingFragments) >>
    /\ \A k \in DOMAIN returned :
          IF Segment(k) = << >>
          THEN IsNone(returned[k])
          ELSE /\ ~IsNone(returned[k])
               /\ Contains(TheVal(returned[k]), JoinSp(Segment(k)))
               /\ BlockText(TheVal(returned[k])) = JoinSp(Segment(k))

\* "a" and "b" were appended, a read delivered "a b", and the next read
\* returned None
C1_Witness ==
    /\ appended = << <<"a">>, <<"b">> >>
    /\ Len(returned) = 2
    /\ ~IsNone(returned[1])
    /\ Contains(TheVal(returned[1]), <<"a", SP, "b">>)
    /\ IsNone(returned[2])
    /\ messages = << >>

(* C2: for every interleaving of appends and reads, the texts of the
   delivered blocks followed by the buffer are exactly the appended
   fragments in order: no fragment is lost, none is delivered twice. *)
C2_ExactlyOnce ==
    JoinSp(DeliveredTexts \o messages) = JoinSp(appended)

\* Two blocks were delivered with an append between them and one after
C2_Witness ==
    /\ Len(DeliveredTexts) = 2
    /\ Len(appended) = 3
    /\ cuts[1] = 1
    /\ Len(messages) = 1

-----------------------------------------------------------------------------
(* Reference definitions for the dispatcher's and the enqueue step's claims *)

\* A text of whitespace only (the empty text included)
Blank(t) == \A i \in 1..Len(t) : t[i] \in WS

\* A text with no whitespace at either end
Trimmed(t) == Len(t) = 0 \/ (t[1] \notin WS /\ t[Len(t)] \notin WS)

\* r is t without t's leading and trailing whitespace
IsTrimOf(r, t) ==
    /\ Trimmed(r)
    /\ \E a \in 0..Len(t) :
         /\ a + Len(r) <= Len(t)
         /\ Blank(SubSeq(t, 1, a))
         /\ SubSeq(t, a + 1, a + Len(r)) = r
         /\ Blank(SubSeq(t, a + Len(r) + 1, Len(t)))

\* The text of an optional text, None read as the empty text
TextOf(o) == IF IsNone(o) THEN << >> ELSE TheVal(o)

(* C12 as stated: for every sequence of segments the local backend emits, the
   text it hands to the loop is the segments joined by single spaces, in the
   order of emission (read for the results that are not empty: an empty join
   may come back as None). *)
C12_JoinedBySingleSpaces ==
    (~IsNone(asr_segments) /\ Len(TextOf(asr_text)) > 0) =>
        TheVal(asr_text) = JoinSp(TheVal(asr_segments))

(* C12 amended: the text the local backend hands to the loop is the segments
   joined by single spaces in the order of emission, then trimmed of leading and
   trailing whitespace; when the join is empty it hands over None. *)
C12_JoinedThenTrimmed ==
    ~IsNone(asr_segments) =>
        LET joined == JoinSp(TheVal(asr_segments)) IN
        IF Len(joined) = 0 THEN IsNone(asr_text)
        ELSE ~IsNone(asr_text) /\ IsTrimOf(TheVal(asr_text), joined)

\* The segments "hel", "lo" were handed over as "hel lo"
C12_Witness ==
    /\ backend_used = "local"
    /\ asr_segments = Some(<< <<"hel">>, <<"lo">> >>)
    /\ asr_text = Some(<<"hel", SP, "lo">>)

-----------------------------------------------------------------------------
(* Further claims about the aggregator *)

(* C13: a call of raw_to_text with None leaves the buffer as it is, in every
   state, and sets the skip-sleep hint exactly when the buffer is not empty at
   that moment; a call with a text never touches the hint. *)
C13_NoneKeepsBuffer ==
    [][ /\ last_call' = "null" =>
             /\ messages' = messages
             /\ Len(messages) # 0 => skip_sleep' = TRUE
             /\ Len(messages) = 0 => skip_sleep' = skip_sleep
        /\ last_call' = "text" => skip_sleep' = skip_sleep ]_vars

\* None arrived while the buffer held a text: the hint is set, the text is there
C13_Witness ==
    /\ last_call = "null"
    /\ skip_sleep
    /\ Len(messages) = 1
    /\ Len(appended) = 2

(* C14: every read that delivers a block has emitted exactly one record
   (label, text, timestamp) and exactly one mode-transition notification, both
   with the text of the delivered block; a read that returns None emits
   neither. *)
C14_OneRecordOneNotification ==
    /\ Len(io_inputs) = Len(DeliveredTexts)
    /\ Len(io_modes) = Len(DeliveredTexts)
    /\ \A k \in 1..Len(DeliveredTexts) :
          /\ io_inputs[k].input_type = descriptor_for_LLM
          /\ io_inputs[k].text = DeliveredTexts[k]
          /\ io_modes[k] = DeliveredTexts[k]

\* Three reads, the second of them empty: two records and two notifications
C14_Witness ==
    /\ Len(returned) = 3
    /\ IsNone(returned[2])
    /\ Len(io_inputs) = 2
    /\ Len(io_modes) = 2
    /\ io_modes[1] # io_modes[2]

(* C16: the aggregator's buffer never holds more than one entry. *)
C16_AtMostOneEntry ==
    Len(messages) <= 1

\* A third fragment was merged into the entry the buffer already held
C16_Witness ==
    /\ Len(appended) = 3
    /\ returned = << >>
    /\ Len(messages) = 1

-----------------------------------------------------------------------------
(* Further claims about the gate and the capture loop *)

(* C15: for a buffer that cannot be decoded into samples the gate returns
   false to its caller, it does not raise, and the caller goes on to the sleep
   at the end of the cycle without invoking the dispatcher for that buffer. *)
C15_MalformedIsSilence ==
    (~IsNone(gate_result) /\ TheVal(audio_chunk).stray # 0) =>
        /\ gate_result = Some(FALSE)
        /\ loop_pc = "sleep"
        /\ backend_used = "none"

\* A loud buffer with a stray byte was answered with false at the threshold 0
C15_Witness ==
    /\ silence_threshold = 0
    /\ audio_chunk = Some(Bytes(<<2, 2>>, 1))
    /\ gate_result = Some(FALSE)
    /\ loop_pc = "sleep"

\* The chunk of the cycle exists and is not empty
ChunkRecorded == ~IsNone(audio_chunk) /\ BytesLen(TheVal(audio_chunk)) > 0

(* C18: in a cycle the recording comes first, then the gate, then the
   dispatcher: the gate has answered only for a chunk that was recorded and is
   not empty, the dispatcher is invoked only after the gate answered true for
   such a chunk, and a cycle whose recording failed or whose chunk is empty or
   silent skips the transcription and enqueues nothing. *)
C18_RecordGateDispatch ==
    /\ ~IsNone(gate_result) => ChunkRecorded
    /\ (loop_pc \in {"dispatch", "openai_file", "openai_upload", "fw_transcribe"}
           \/ backend_used # "none")
          => (ChunkRecorded /\ gate_result = Some(TRUE))
    /\ (~ChunkRecorded \/ gate_result # Some(TRUE))
          => /\ backend_used = "none"
             /\ IsNone(asr_text)
             /\ IsNone(cycle_put)
             /\ loop_pc \in {"record", "evaluate", "sleep", "sleep_err"}

\* A silent chunk: the gate answered false and the cycle is at its sleep with
\* nothing transcribed or enqueued, after an earlier cycle that enqueued a text
C18_Witness ==
    /\ loop_pc = "sleep"
    /\ ChunkRecorded
    /\ gate_result = Some(FALSE)
    /\ backend_used = "none"
    /\ puts = 1
    /\ ~cycle_failed

(* C19: a transcription that is absent, empty or whitespace only is never put
   in the message buffer: every text in the buffer is non-empty and trimmed,
   and what a cycle put is its transcription trimmed. *)
C19_OnlyTrimmedText ==
    /\ \A i \in 1..Len(message_buffer) :
          Len(message_buffer[i]) > 0 /\ Trimmed(message_buffer[i])
    /\ ~IsNone(cycle_put) =>
          /\ ~IsNone(asr_text)
          /\ Len(TheVal(cycle_put)) > 0
          /\ IsTrimOf(TheVal(cycle_put), TheVal(asr_text))
    /\ (IsNone(asr_text) \/ Blank(TheVal(asr_text))) => IsNone(cycle_put)

\* The hosted backend answered with no text; the cycle reached its sleep and
\* put nothing, and the buffer holds the text of an earlier cycle
C19_Witness ==
    /\ loop_pc = "sleep"
    /\ backend_used = "cloud"
    /\ asr_text = Some(<< >>)
    /\ IsNone(cycle_put)
    /\ Len(message_buffer) = 1

(* C23: the message buffer is first in, first out between the loop and _poll:
   in every interleaving, the texts _poll has returned followed by the texts
   still in the buffer are the texts enqueued, in the order they were produced,
   so each is returned by exactly one call; a call returns the oldest text of
   the buffer, and None exactly when the buffer is empty. *)
C23_FifoThroughPoll ==
    [][ /\ polled' \o message_buffer' = enqueued'
        /\ (poll_ret' # poll_ret \/ polled' # polled) =>
              IF message_buffer = << >>
              THEN /\ poll_ret' = Some(NoneV)
                   /\ polled' = polled
                   /\ message_buffer' = << >>
              ELSE /\ poll_ret' = Some(Some(message_buffer[1]))
                   /\ polled' = Append(polled, message_buffer[1])
                   /\ message_buffer' = SubSeq(message_buffer, 2, Len(message_buffer)) ]_vars

\* Two different texts were enqueued and returned in that order, and the next
\* call found the buffer empty and returned None
C23_Witness ==
    /\ Len(enqueued) = 2
    /\ enqueued[1] # enqueued[2]
    /\ polled = enqueued
    /\ message_buffer = << >>
    /\ poll_ret = Some(NoneV)

-----------------------------------------------------------------------------
(* Further claims about the synthesis chain *)

(* C17: a 200 answer of the hosted provider with a body of length zero is no
   result, like a failure: by the time speak returns the secondary provider
   has been attempted, and the empty payload is never handed to playback. *)
C17_EmptyBodyFallsBack ==
    /\ (primary_outcome = "ok" /\ audio_data = Some(<< >>) /\ ~IsNone(speak_ret))
           => piper_calls = 1
    /\ tts_pc \in {"play_write", "play_decode", "play_render"}
           => Len(TheVal(audio_data)) > 0

\* The temporary files that _play_audio created and that are on disk
PlaybackFiles == { f \in files : f.by = "play_wav" }

(* C20: _play_audio removes its temporary file on every exit path: once a
   speak call has ended, no file that playback wrote is left on disk. *)
C20_PlaybackFileRemoved ==
    tts_pc = "idle" => PlaybackFiles = {}

-----------------------------------------------------------------------------
(* Claims about PiperTTSConnector *)

\* s is an initial part of t
IsPrefix(s, t) == Len(s) <= Len(t) /\ SubSeq(t, 1, Len(s)) = s

(* C21: _play_audio runs the players in the order aplay, paplay, play, ffplay,
   each at most once; when it returned true it had run at least one player;
   it returns false only after all four players were run. *)
C21_PlayersInOrder ==
    /\ IsPrefix(pp_tried, <<"aplay", "paplay", "play", "ffplay">>)
    /\ pp_success = Some(TRUE) => Len(pp_tried) >= 1
    /\ pp_success = Some(FALSE) => pp_tried = <<"aplay", "paplay", "play", "ffplay">>

(* C22: the availability of the synthesis binary is decided at construction
   and never changes: no step changes piper_available or runs a probe again,
   and when the probe failed, every connect call ends at once, with no
   synthesis subprocess and no player run. *)
C22_AvailabilityDecidedOnce ==
    [][ /\ piper_available' = piper_available
        /\ pp_probes' = pp_probes
        /\ ~piper_available =>
              /\ pp_pc' = "idle"
              /\ pp_synth_runs' = 0
              /\ pp_tried' = << >>
              /\ files' = {} ]_vars

\* Both probes failed at construction; two connect calls have come and gone
C22_Witness ==
    /\ ~piper_available
    /\ pp_probes = 2
    /\ pp_connects = 2
    /\ pp_pc = "idle"
    /\ pp_synth_runs = 0

-----------------------------------------------------------------------------
(* Claims about WebSocketClient *)

(* C24: from the completion of a close call until connect is called again,
   the running flag is false and send transmits nothing, in every
   interleaving of close with a connect call in progress. *)
C24_ClosedStaysClosed ==
    ws_close_done => (~running /\ ~ws_sent_after_close)

(* C25: whenever the listen loop ends, by a closed connection, a transport
   error or an exception of the message callback, the running flag is false
   right after; and a send call made while the flag is false or there is no
   connection returns at once: it transmits nothing and invokes no callback. *)
C25_ListenEndClearsRunning ==
    [][ /\ (ws_pc = "listening" /\ ws_pc' # "listening") => ~running'
        /\ (ws_sends' # ws_sends /\ (websocket = 0 \/ ~running)) =>
              /\ ws_sent' = ws_sent
              /\ ws_callbacks' = ws_callbacks
              /\ ws_send_pc' = ws_send_pc ]_vars

\* The message callback raised on the first message: the loop ended with the
\* connection still open and the flag false, and a send call was turned away
C25_Witness ==
    /\ ws_pc = "idle"
    /\ websocket \in ws_open
    /\ ~running
    /\ ws_closes = 0
    /\ ws_msgs = 1
    /\ ws_sends = 1
    /\ ws_sent = 0
    /\ ws_send_pc = "idle"
    /\ ws_callbacks = 3

=============================================================================
